---- MODULE Spec2Model ----
(***************************************************************************)
(* Model of the filtering / aggregation / summary pipeline of              *)
(* src/src/processar_dados.py (filtrar_dados, agrupar_por_operacao,        *)
(* gerar_resumo_geral) as a state machine.                                 *)
(*                                                                         *)
(* A DataFrame is a sequence of rows; every row keeps the index label it   *)
(* had in the sheet (idx), so a row can be told from an equal-looking one. *)
(* A text cell is a TLA+ string; Chars gives its characters, so that       *)
(* str.lower() and str.contains() are computed and not assumed.  A blank   *)
(* cell is NaN.  A date cell is either the text of the sheet               *)
(* [d, m, a] ("DD/MM/YYYY"), a Timestamp [ts] or NaT [nat].                *)
(***************************************************************************)
EXTENDS Integers, Sequences, FiniteSets, TLC

\* ------------------------------------------------------------------------
\* Bounds of the model
\* ------------------------------------------------------------------------
MaxLinhas == 2
MaxTentativas == 2

\* ------------------------------------------------------------------------
\* Text cells
\* ------------------------------------------------------------------------
\* A blank cell of the sheet, as pandas loads it.
NaN == "<NaN>"

\* The characters of the text values the model uses.
Chars(s) ==
    CASE s = "Dinheiro/PIX" -> <<"D","i","n","h","e","i","r","o","/","P","I","X">>
      [] s = "PIX"          -> <<"P","I","X">>
      [] s = "dinheiro"     -> <<"d","i","n","h","e","i","r","o">>
      [] s = "X"            -> <<"X">>
      [] s = "x"            -> <<"x">>
      [] s = "TOTAL"        -> <<"T","O","T","A","L">>
      [] s = "A"            -> <<"A">>
      [] s = "B"            -> <<"B">>
      [] s = "a"            -> <<"a">>
      [] s = "Y"            -> <<"Y">>
      [] s = "Cartão"       -> <<"C","a","r","t","ã","o">>

\* str.lower() on one character.
Minuscula(c) ==
    CASE c = "A" -> "a" [] c = "B" -> "b" [] c = "C" -> "c" [] c = "D" -> "d"
      [] c = "I" -> "i" [] c = "S" -> "s" [] c = "Y" -> "y"
      [] c = "L" -> "l" [] c = "O" -> "o" [] c = "P" -> "p" [] c = "T" -> "t"
      [] c = "X" -> "x" [] OTHER -> c

\* str.lower() on a sequence of characters.
Lower(cs) == [i \in 1..Len(cs) |-> Minuscula(cs[i])]

\* str.contains(sub) on sequences of characters (sub is a literal, no regex
\* metacharacter in it).
Contains(cs, sub) ==
    \E i \in 0..(Len(cs) - Len(sub)) : SubSeq(cs, i + 1, i + Len(sub)) = sub

\* The code point of a character (Python compares strings by code point).
Codigo(c) ==
    CASE c = "/" -> 47 [] c = "A" -> 65 [] c = "B" -> 66 [] c = "D" -> 68
      [] c = "I" -> 73 [] c = "L" -> 76 [] c = "O" -> 79 [] c = "P" -> 80
      [] c = "T" -> 84 [] c = "X" -> 88 [] c = "Y" -> 89 [] c = "a" -> 97 [] c = "d" -> 100 [] c = "e" -> 101
      [] c = "h" -> 104 [] c = "i" -> 105 [] c = "n" -> 110 [] c = "o" -> 111
      [] c = "r" -> 114 [] c = "x" -> 120

\* s < t for two sequences of characters, as Python orders strings.
RECURSIVE MenorChars(_, _)
MenorChars(s, t) ==
    IF t = << >> THEN FALSE
    ELSE IF s = << >> THEN TRUE
    ELSE IF Codigo(Head(s)) # Codigo(Head(t)) THEN Codigo(Head(s)) < Codigo(Head(t))
    ELSE MenorChars(Tail(s), Tail(t))

MenorTexto(s, t) == MenorChars(Chars(s), Chars(t))

\* The literal 'dinheiro' that filtrar_dados looks for.
PALAVRA_DINHEIRO == "dinheiro"

\* ------------------------------------------------------------------------
\* Dates
\* ------------------------------------------------------------------------
NaT == [nat |-> TRUE]

EhTimestamp(c) == "ts" \in DOMAIN c

EhBissexto(a) == (a % 4 = 0 /\ a % 100 # 0) \/ a % 400 = 0

DiasNoMes(m, a) ==
    IF m = 2 THEN (IF EhBissexto(a) THEN 29 ELSE 28)
    ELSE IF m \in {4, 6, 9, 11} THEN 30 ELSE 31

\* strptime / to_datetime with format '%d/%m/%Y' on a text "d/m/a": the
\* Timestamp of that day at midnight, or NaT when it is no calendar day.
ParseData(t) ==
    IF t.m \in 1..12 /\ t.d \in 1..DiasNoMes(t.m, t.a)
    THEN [ts |-> t.a * 10000 + t.m * 100 + t.d]
    ELSE NaT

\* ToDatetime as it would be if the format were forced on a cell that is a
\* datetime already: nothing but a text of the format converts.
ToDatetimeSoTexto(c) ==
    IF "d" \in DOMAIN c THEN ParseData(c) ELSE NaT

\* pd.to_datetime(col, format='%d/%m/%Y', errors='coerce') on one cell: a
\* cell that already is a datetime stays as it is.
ToDatetime(c) ==
    IF EhTimestamp(c) THEN c
    ELSE IF "nat" \in DOMAIN c THEN NaT
    ELSE ParseData(c)

\* ------------------------------------------------------------------------
\* Input domains
\* ------------------------------------------------------------------------
Texto(d, m, a) == [d |-> d, m |-> m, a |-> a]

PagamentosLidos == {"Dinheiro/PIX", "PIX", NaN}
DatasLidas == {Texto(5, 1, 2026), Texto(6, 1, 2026), Texto(31, 13, 2026)}
DatasValidas == {Texto(5, 1, 2026), Texto(6, 1, 2026)}
OperacoesLidas == {"A", "B"}
EntregadoresLidos == {"X", "B", "TOTAL", NaN}
ValoresLidos == {50, 100}

\* What obter_datas can return: texts that strptime accepted.
DatasUsuario == {Texto(5, 1, 2026), Texto(6, 1, 2026)}

\* The lists carregar_planilha can read from the exclusion sheet.
ListasExclusao == {<< >>, <<"X">>, <<"x", "TOTAL">>}

\* The rows of the sheet: every payment with every date text (what the
\* payment and date filters read), and for the cash rows with a valid date
\* every unit, agent and amount (what the aggregation reads).
Celulas ==
    [pgto : PagamentosLidos, data : DatasLidas, operacao : {"A"},
     entregador : {"X"}, valor : {100}]
    \cup
    [pgto : {"Dinheiro/PIX"}, data : DatasValidas, operacao : OperacoesLidas,
     entregador : EntregadoresLidos, valor : ValoresLidos]

\* pd.read_excel: the rows of the sheet, each with its RangeIndex label.
ComIndice(cs) ==
    [i \in 1..Len(cs) |->
        [idx |-> i - 1, pgto |-> cs[i].pgto, data |-> cs[i].data,
         operacao |-> cs[i].operacao, entregador |-> cs[i].entregador,
         valor |-> cs[i].valor]]

Planilhas ==
    UNION {{ComIndice(cs) : cs \in [1..n -> Celulas]} : n \in 0..MaxLinhas}

\* The dtype pandas infers for the payment column when it loads the sheet:
\* a column with rows and nothing but blank cells is float64, not object.
InferirDtype(linhas) ==
    IF Len(linhas) > 0 /\ \A i \in 1..Len(linhas) : linhas[i].pgto = NaN
    THEN "float64" ELSE "object"

\* ------------------------------------------------------------------------
\* filtrar_dados
\* ------------------------------------------------------------------------
\* What a step hands on: the rows left, or the exception it raised.
Resultado(linhas) == [erro |-> "", linhas |-> linhas]
Falha(e) == [erro |-> e, linhas |-> << >>]

\* .str.lower().str.contains('dinheiro', na=False) on one cell.
ContemDinheiro(c) ==
    IF c = NaN THEN FALSE
    ELSE Contains(Lower(Chars(c)), Chars(PALAVRA_DINHEIRO))

\* FiltroPagamento as it would be if the column's dtype were the one of the
\* rows left and not the one of the sheet as loaded.
FiltroPagamentoDtypeAtual(linhas, dtype) ==
    IF Len(linhas) > 0 /\ \A i \in 1..Len(linhas) : linhas[i].pgto = NaN
    THEN Falha("AttributeError")
    ELSE Resultado(SelectSeq(linhas, LAMBDA r : ContemDinheiro(r.pgto)))

\* FILTRO 1: df[COLUNA_PAGAMENTO] needs the column ("ausente": the sheet has
\* no such column), and the .str accessor exists only on a column of strings.
FiltroPagamento(linhas, dtype) ==
    IF dtype = "ausente" THEN Falha("KeyError")
    ELSE IF dtype # "object" THEN Falha("AttributeError")
    ELSE Resultado(SelectSeq(linhas, LAMBDA r : ContemDinheiro(r.pgto)))

\* FILTRO 2: to_datetime on the date column, then dropna on it.
ConverterDatas(linhas) ==
    LET convertidas ==
            [i \in 1..Len(linhas) |->
                [linhas[i] EXCEPT !.data = ToDatetime(linhas[i].data)]]
    IN  Resultado(SelectSeq(convertidas, LAMBDA r : r.data # NaT))

\* FiltroPeriodo as it would be with < for the end of the period.
FiltroPeriodoFimAberto(linhas, inicio, fim) ==
    LET data_inicio_dt == ParseData(inicio)
        data_fim_dt == ParseData(fim)
    IN  Resultado(SelectSeq(linhas,
            LAMBDA r : r.data.ts >= data_inicio_dt.ts /\ r.data.ts < data_fim_dt.ts))

\* FILTRO 3: data_inicio_dt <= date <= data_fim_dt.
FiltroPeriodo(linhas, inicio, fim) ==
    LET data_inicio_dt == ParseData(inicio)
        data_fim_dt == ParseData(fim)
    IN  Resultado(SelectSeq(linhas,
            LAMBDA r : r.data.ts >= data_inicio_dt.ts /\ r.data.ts <= data_fim_dt.ts))

\* Series.isin(values) on one cell.
Isin(c, valores) == \E i \in 1..Len(valores) : valores[i] = c

\* FiltroExclusoes as it would be if the names were compared lower-cased.
FiltroExclusoesSemCaixa(linhas, excluir) ==
    Resultado(SelectSeq(linhas,
        LAMBDA r : ~(/\ r.entregador # NaN
                     /\ \E i \in 1..Len(excluir) :
                            Lower(Chars(excluir[i])) = Lower(Chars(r.entregador)))))

\* FILTRO 4: ~isin(exclusoes).
FiltroExclusoes(linhas, excluir) ==
    Resultado(SelectSeq(linhas, LAMBDA r : ~Isin(r.entregador, excluir)))

Passo(nome, linhas, dtype, inicio, fim, excluir) ==
    CASE nome = "pagamento" -> FiltroPagamento(linhas, dtype)
      [] nome = "datas"     -> ConverterDatas(linhas)
      [] nome = "periodo"   -> FiltroPeriodo(linhas, inicio, fim)
      [] nome = "exclusoes" -> FiltroExclusoes(linhas, excluir)

\* The steps of `ordem` one after the other on df.copy(); an exception ends
\* the call.  parciais are the values df_filtrado takes after each step (the
\* function prints the length of each).
RECURSIVE AplicarPassos(_, _, _, _, _, _, _)
AplicarPassos(ordem, linhas, parciais, dtype, inicio, fim, excluir) ==
    IF ordem = << >>
    THEN [erro |-> "", linhas |-> linhas, parciais |-> parciais]
    ELSE LET r == Passo(Head(ordem), linhas, dtype, inicio, fim, excluir)
         IN  IF r.erro # ""
             THEN [erro |-> r.erro, linhas |-> << >>, parciais |-> parciais]
             ELSE AplicarPassos(Tail(ordem), r.linhas, Append(parciais, r.linhas),
                                dtype, inicio, fim, excluir)

\* FonteAposFiltrar as it would be if the assignment of the converted dates
\* wrote into the frame of the caller.
FonteComDatasConvertidas(df) ==
    [i \in 1..Len(df) |-> [df[i] EXCEPT !.data = ToDatetime(df[i].data)]]

\* The frame the caller passed, after the call: the filters work on
\* df.copy(), every mask and dropna makes a new frame, and the converted
\* dates are assigned to a column of the copy.
FonteAposFiltrar(df) == df

\* The order in which filtrar_dados applies its filters.
OrdemDoCodigo == <<"pagamento", "datas", "periodo", "exclusoes">>

filtrar_dados(df, dtype, inicio, fim, excluir) ==
    AplicarPassos(OrdemDoCodigo, df, << >>, dtype, inicio, fim, excluir)

\* ------------------------------------------------------------------------
\* agrupar_por_operacao
\* ------------------------------------------------------------------------
\* Series.unique(): the distinct values in order of first appearance.
RECURSIVE Unique(_)
Unique(valores) ==
    IF valores = << >> THEN << >>
    ELSE LET resto == Unique(SubSeq(valores, 1, Len(valores) - 1))
             ultimo == valores[Len(valores)]
         IN  IF \E i \in 1..Len(resto) : resto[i] = ultimo
             THEN resto ELSE Append(resto, ultimo)

Coluna(linhas, campo) == [i \in 1..Len(linhas) |-> linhas[i][campo]]

RECURSIVE SomaValores(_)
SomaValores(linhas) ==
    IF linhas = << >> THEN 0
    ELSE Head(linhas).valor + SomaValores(Tail(linhas))

\* The sorted labels groupby and pivot_table produce: a set of texts in
\* ascending order, a set of Timestamps in ascending order.
RECURSIVE OrdenarTextos(_)
OrdenarTextos(S) ==
    IF S = {} THEN << >>
    ELSE LET m == CHOOSE x \in S : \A y \in S \ {x} : MenorTexto(x, y)
         IN  <<m>> \o OrdenarTextos(S \ {m})

\* OrdenarDatas as it would be with the latest date first.
RECURSIVE OrdenarDatasDecrescente(_)
OrdenarDatasDecrescente(S) ==
    IF S = {} THEN << >>
    ELSE LET m == CHOOSE x \in S : \A y \in S \ {x} : x.ts > y.ts
         IN  <<m>> \o OrdenarDatasDecrescente(S \ {m})

RECURSIVE OrdenarDatas(_)
OrdenarDatas(S) ==
    IF S = {} THEN << >>
    ELSE LET m == CHOOSE x \in S : \A y \in S \ {x} : x.ts < y.ts
         IN  <<m>> \o OrdenarDatas(S \ {m})

\* The label of the synthetic column, and of the synthetic row.
ColTotal == [nome |-> "Total"]
LinhaTotal == "TOTAL"

\* df[df[OPERAÇÃO] == operacao]
DfOperacao(df, operacao) == SelectSeq(df, LAMBDA r : r.operacao = operacao)

\* Agrupado as it would be with first() for sum().
AgrupadoSemSomar(df_operacao) ==
    LET chaves == {<<df_operacao[i].entregador, df_operacao[i].data>> :
                        i \in {j \in 1..Len(df_operacao) :
                                    df_operacao[j].entregador # NaN}}
    IN  [k \in chaves |->
            Head(SelectSeq(df_operacao,
                LAMBDA r : r.entregador = k[1] /\ r.data = k[2])).valor]

\* groupby([Entregador, DATA ENTREGA])[valor].sum(): one sum per pair of
\* keys present; groupby leaves out the rows whose key is NaN.
Agrupado(df_operacao) ==
    LET chaves == {<<df_operacao[i].entregador, df_operacao[i].data>> :
                        i \in {j \in 1..Len(df_operacao) :
                                    df_operacao[j].entregador # NaN}}
    IN  [k \in chaves |->
            SomaValores(SelectSeq(df_operacao,
                LAMBDA r : r.entregador = k[1] /\ r.data = k[2]))]

\* pivot_table(index=Entregador, columns=DATA ENTREGA, aggfunc='sum',
\* fill_value=0): sorted row and column labels, 0 where no group exists.
PivotTable(agrupado) ==
    LET entregadores == {k[1] : k \in DOMAIN agrupado}
        datas == {k[2] : k \in DOMAIN agrupado}
        index == OrdenarTextos(entregadores)
        columns == OrdenarDatas(datas)
    IN  [index |-> index, columns |-> columns,
         cel |-> [k \in entregadores \X datas |->
                    IF k \in DOMAIN agrupado THEN agrupado[k] ELSE 0]]

Rotulos(seq) == {seq[i] : i \in 1..Len(seq)}

RECURSIVE SomaCelulas(_, _)
SomaCelulas(cel, chaves) ==
    IF chaves = {} THEN 0
    ELSE LET k == CHOOSE x \in chaves : TRUE
         IN  cel[k] + SomaCelulas(cel, chaves \ {k})

\* pivot[rotulo] = pivot.sum(axis=1): a column of that label is replaced,
\* otherwise the column is added after the others.
AdicionarColuna(pivot, rotulo) ==
    LET linhas == Rotulos(pivot.index)
        colunas == Rotulos(pivot.columns)
        soma == [a \in linhas |-> SomaCelulas(pivot.cel, {a} \X colunas)]
    IN  [index |-> pivot.index,
         columns |-> IF rotulo \in colunas THEN pivot.columns
                     ELSE Append(pivot.columns, rotulo),
         cel |-> [k \in linhas \X (colunas \cup {rotulo}) |->
                    IF k[2] = rotulo THEN soma[k[1]] ELSE pivot.cel[k]]]

\* pivot.loc[rotulo] = pivot.sum(axis=0): a row of that label is replaced,
\* otherwise the row is added after the others.
AdicionarLinha(pivot, rotulo) ==
    LET linhas == Rotulos(pivot.index)
        colunas == Rotulos(pivot.columns)
        soma == [c \in colunas |-> SomaCelulas(pivot.cel, linhas \X {c})]
    IN  [index |-> IF rotulo \in linhas THEN pivot.index
                   ELSE Append(pivot.index, rotulo),
         columns |-> pivot.columns,
         cel |-> [k \in (linhas \cup {rotulo}) \X colunas |->
                    IF k[1] = rotulo THEN soma[k[2]] ELSE pivot.cel[k]]]

\* The table of one unit: PASSO 1 to PASSO 4.
TabelaDaOperacao(df, operacao) ==
    AdicionarLinha(
        AdicionarColuna(PivotTable(Agrupado(DfOperacao(df, operacao))), ColTotal),
        LinhaTotal)

\* The filtered frame after agrupar_por_operacao: df[mask], groupby and
\* pivot_table make new frames, and the Total column and the TOTAL row are
\* assigned to the pivot.
FiltradoAposAgrupar(df) == df

\* agrupar_por_operacao as it would be if it skipped the units that have a
\* single record.
agrupar_sem_unitarias(df) ==
    LET todas == Unique(Coluna(df, "operacao"))
        operacoes == SelectSeq(todas, LAMBDA o : Len(DfOperacao(df, o)) > 1)
    IN  [i \in 1..Len(operacoes) |->
            [operacao |-> operacoes[i],
             tabela |-> TabelaDaOperacao(df, operacoes[i])]]

\* The dict relatorios in insertion order: one entry per value of unique().
agrupar_por_operacao(df) ==
    LET operacoes == Unique(Coluna(df, "operacao"))
    IN  [i \in 1..Len(operacoes) |->
            [operacao |-> operacoes[i],
             tabela |-> TabelaDaOperacao(df, operacoes[i])]]

\* ------------------------------------------------------------------------
\* gerar_resumo_geral
\* ------------------------------------------------------------------------
\* LinhasResumo as it would be if the loop stopped after the first item.
LinhasResumoSoPrimeira(relatorios) ==
    [i \in 1..(IF Len(relatorios) = 0 THEN 0 ELSE 1) |->
        [nome |-> relatorios[i].operacao,
         total |-> relatorios[i].tabela.cel[<<LinhaTotal, ColTotal>>]]]

\* The rows appended to the list resumo, one per item of the dict.
LinhasResumo(relatorios) ==
    [i \in 1..Len(relatorios) |->
        [nome |-> relatorios[i].operacao,
         total |-> relatorios[i].tabela.cel[<<LinhaTotal, ColTotal>>]]]

RECURSIVE SomaTotais(_)
SomaTotais(linhas) ==
    IF linhas = << >> THEN 0
    ELSE Head(linhas).total + SomaTotais(Tail(linhas))

\* Ordenacoes as it would be with ascending=True.
OrdenacoesCrescentes(linhas) ==
    LET n == Len(linhas)
        perms == {p \in [1..n -> 1..n] : \A i, j \in 1..n : i # j => p[i] # p[j]}
    IN  {[i \in 1..n |-> linhas[p[i]]] : p \in
            {q \in perms : \A i \in 1..(n - 1) :
                                linhas[q[i]].total <= linhas[q[i + 1]].total}}

\* The orders sort_values(ascending=False) may leave the rows in: any
\* arrangement with the totals non-increasing (kind='quicksort' promises
\* nothing about rows of equal total).
Ordenacoes(linhas) ==
    LET n == Len(linhas)
        perms == {p \in [1..n -> 1..n] : \A i, j \in 1..n : i # j => p[i] # p[j]}
    IN  {[i \in 1..n |-> linhas[p[i]]] : p \in
            {q \in perms : \A i \in 1..(n - 1) :
                                linhas[q[i]].total >= linhas[q[i + 1]].total}}

\* gerar_resumo_geral as it would be if the TOTAL row took the largest total
\* and not the sum of the column.
gerar_resumo_total_do_maior(relatorios) ==
    IF relatorios = << >> THEN {Falha("KeyError")}
    ELSE {Resultado(Append(o, [nome |-> "TOTAL", total |-> o[1].total])) :
            o \in Ordenacoes(LinhasResumo(relatorios))}

\* The summaries gerar_resumo_geral may return; sort_values on the frame
\* built from an empty list, which has no column, raises KeyError.
gerar_resumo_geral(relatorios) ==
    IF relatorios = << >> THEN {Falha("KeyError")}
    ELSE {Resultado(Append(o, [nome |-> "TOTAL", total |-> SomaTotais(o)])) :
            o \in Ordenacoes(LinhasResumo(relatorios))}

\* The tables after gerar_resumo_geral: it reads df.loc['TOTAL', 'Total'] of
\* each and assigns to none.
TabelasAposResumo(relatorios) == relatorios

\* ------------------------------------------------------------------------
\* gerar_todas_imagens
\* ------------------------------------------------------------------------
\* Timestamp.strftime('%d/%m/%Y'): the text of the day.
Strftime(c) ==
    Texto(c.ts % 100, (c.ts \div 100) % 100, c.ts \div 10000)

\* The replace() calls on one character of the lower-cased unit name.
SemAcento(c) ==
    CASE c = " " -> "_" [] c = "ã" -> "a" [] c = "á" -> "a" [] c = "é" -> "e"
      [] c = "í" -> "i" [] c = "ó" -> "o" [] c = "ú" -> "u" [] OTHER -> c

\* The name of the image file of a unit, as a sequence of characters.
NomeArquivo(operacao) ==
    LET cs == Lower(Chars(operacao))
    IN  [i \in 1..Len(cs) |-> SemAcento(cs[i])] \o <<".png">>

\* The header of the table drawn for a unit: 'Entregador', the date columns
\* as texts, 'Total' as it is.
Cabecalho(tabela) ==
    <<[nome |-> "Entregador"]>> \o
    [j \in 1..Len(tabela.columns) |->
        IF tabela.columns[j] = ColTotal THEN ColTotal
        ELSE Strftime(tabela.columns[j])]

\* gerar_imagem_relatorio: what is drawn for a unit, read from df.copy().
gerar_imagem_relatorio(tabela, operacao) ==
    [chave |-> operacao, arquivo |-> NomeArquivo(operacao),
     cabecalho |-> Cabecalho(tabela), linhas |-> tabela.index]

\* gerar_imagem_resumo: one drawn row per row of the summary, numbered but
\* for the row named TOTAL; read from df_resumo.copy().
gerar_imagem_resumo(df_resumo) ==
    [chave |-> "RESUMO_GERAL", arquivo |-> <<"resumo_geral", ".png">>,
     cabecalho |-> <<[nome |-> "#"], [nome |-> "Nome da Região"],
                     [nome |-> "Sum of Fatur.(R$)"]>>,
     linhas |-> [i \in 1..Len(df_resumo) |->
                    IF df_resumo[i].nome = "TOTAL" THEN 0 ELSE i]]

\* The images in the order they are written: the units in sorted order of
\* their names, then the summary.
gerar_todas_imagens(relatorios, df_resumo) ==
    LET chaves == OrdenarTextos({relatorios[i].operacao : i \in 1..Len(relatorios)})
        tabela(o) == (CHOOSE i \in 1..Len(relatorios) :
                            relatorios[i].operacao = o)
    IN  [k \in 1..Len(chaves) |->
            gerar_imagem_relatorio(relatorios[tabela(chaves[k])].tabela, chaves[k])]
        \o <<gerar_imagem_resumo(df_resumo)>>

\* The tables after gerar_todas_imagens: the column labels and the cell
\* texts are assigned to df_display, a copy of the table.
TabelasAposImagens(relatorios) == relatorios

\* ------------------------------------------------------------------------
\* gerar_planilhas.py: gerar_planilha_operacao
\* ------------------------------------------------------------------------
\* The orders sort_values(DATA ENTREGA) may leave the rows in: any
\* arrangement with the dates non-decreasing.
OrdenacoesPorData(linhas) ==
    LET n == Len(linhas)
        perms == {p \in [1..n -> 1..n] : \A i, j \in 1..n : i # j => p[i] # p[j]}
    IN  {[i \in 1..n |-> linhas[p[i]]] : p \in
            {q \in perms : \A i \in 1..(n - 1) :
                                linhas[q[i]].data.ts <= linhas[q[i + 1]].data.ts}}

\* What to_excel(index=False) writes of a row: its columns, the date as the
\* text .dt.strftime('%d/%m/%Y') made of it, and not its index label.
LinhaExportada(r) ==
    [pgto |-> r.pgto, data |-> Strftime(r.data), operacao |-> r.operacao,
     entregador |-> r.entregador, valor |-> r.valor]

\* The name of the file: the unit lower-cased and without accents, the
\* period with '-' for '/', '.xlsx'.
NomePlanilha(operacao, inicio, fim) ==
    LET cs == Lower(Chars(operacao))
    IN  [base |-> [i \in 1..Len(cs) |-> SemAcento(cs[i])],
         inicio |-> inicio, fim |-> fim, extensao |-> ".xlsx"]

\* What the function returns when it writes no file.
None == [none |-> TRUE]

\* gerar_planilha_operacao as it would be if it wrote the rows as it got them.
gerar_planilha_sem_ordenar(df, operacao, inicio, fim) ==
    LET df_operacao == DfOperacao(df, operacao)
    IN  IF Len(df_operacao) = 0
        THEN {[retorno |-> None, operacao |-> operacao, linhas |-> << >>]}
        ELSE {[retorno |-> NomePlanilha(operacao, inicio, fim),
               operacao |-> operacao,
               linhas |-> [i \in 1..Len(df_operacao) |->
                              LinhaExportada(df_operacao[i])]]}

\* The calls' possible results: None and no file when the unit has no row,
\* else the path of the file written and the rows in it.
gerar_planilha_operacao(df, operacao, inicio, fim) ==
    LET df_operacao == DfOperacao(df, operacao)
    IN  IF Len(df_operacao) = 0
        THEN {[retorno |-> None, operacao |-> operacao, linhas |-> << >>]}
        ELSE {[retorno |-> NomePlanilha(operacao, inicio, fim),
               operacao |-> operacao,
               linhas |-> [i \in 1..Len(o) |-> LinhaExportada(o[i])]] :
                    o \in OrdenacoesPorData(df_operacao)}

\* ------------------------------------------------------------------------
\* State
\* ------------------------------------------------------------------------
VARIABLES
    transacoes,    \* the transaction sheet as loaded
    dtype_pgto,    \* dtype of its payment column
    data_inicio,   \* the period the user typed
    data_fim,
    exclusoes,     \* the exclusion list as loaded
    etapa,         \* the last call that ran
    erro,          \* the exception filtrar_dados raised, "" when none
    df_filtrado,   \* what filtrar_dados returned
    parciais,      \* the values of its local df_filtrado after each filter
    erro_outro,    \* the same three for a second run of the filters
    df_outro,
    parciais_outro,
    relatorios,    \* what agrupar_por_operacao returned
    erro_resumo,   \* the exception gerar_resumo_geral raised, "" when none
    df_resumo,     \* what gerar_resumo_geral returned
    imagens,       \* what gerar_todas_imagens drew, in the order written
    programa,      \* the entry point that runs: "main", "gerar_planilhas", "" for none
    executadas,    \* the stages the entry point has started, in order
    mensagens,     \* the notices it has printed
    status,        \* "rodando", "retornou", or the code of sys.exit
    digitadas,     \* the texts typed at the prompt of obter_operacoes_desejadas
    operacoes_selecionadas,  \* what obter_operacoes_desejadas returned
    planilhas      \* what gerar_planilha_operacao returned, call after call

vars == <<transacoes, dtype_pgto, data_inicio, data_fim, exclusoes, etapa, erro,
          df_filtrado, parciais, erro_outro, df_outro, parciais_outro,
          relatorios, erro_resumo, df_resumo, imagens, programa, executadas,
          mensagens, status, digitadas, operacoes_selecionadas, planilhas>>

parametros == <<dtype_pgto, data_inicio, data_fim, exclusoes>>
entradas == <<transacoes, dtype_pgto, data_inicio, data_fim, exclusoes>>
primeira == <<erro, df_filtrado, parciais>>
segunda == <<erro_outro, df_outro, parciais_outro>>
agregados == <<relatorios, erro_resumo, df_resumo, imagens>>
execucao == <<programa, executadas, mensagens, status, digitadas,
              operacoes_selecionadas>>

\* No entry point runs: the functions are called one by one.
SemPrograma ==
    /\ programa = ""
    /\ executadas = << >>
    /\ mensagens = {}
    /\ status = "rodando"
    /\ digitadas = << >>
    /\ operacoes_selecionadas = << >>

\* After carregar_planilha and obter_datas.
Init ==
    /\ transacoes \in Planilhas
    /\ dtype_pgto = InferirDtype(transacoes)
    /\ data_inicio \in DatasUsuario
    /\ data_fim \in DatasUsuario
    /\ exclusoes \in ListasExclusao
    /\ etapa = "carregado"
    /\ erro = ""
    /\ df_filtrado = << >>
    /\ parciais = << >>
    /\ erro_outro = ""
    /\ df_outro = << >>
    /\ parciais_outro = << >>
    /\ relatorios = << >>
    /\ erro_resumo = ""
    /\ df_resumo = << >>
    /\ imagens = << >>
    /\ planilhas = << >>
    /\ SemPrograma

\* df_filtrado = filtrar_dados(transacoes, data_inicio, data_fim, exclusoes)
FiltrarDados ==
    /\ etapa = "carregado"
    /\ LET r == filtrar_dados(transacoes, dtype_pgto, data_inicio, data_fim, exclusoes)
       IN  /\ df_filtrado' = r.linhas
           /\ parciais' = r.parciais
           /\ erro' = r.erro
    /\ transacoes' = FonteAposFiltrar(transacoes)
    /\ etapa' = "filtrado"
    /\ UNCHANGED <<parametros, segunda, agregados>>
    /\ UNCHANGED <<execucao, planilhas>>

\* filtrar_dados called again, with the same arguments, on what it returned.
FiltrarDeNovo ==
    /\ etapa = "filtrado"
    /\ erro = ""
    /\ LET r == filtrar_dados(df_filtrado, dtype_pgto, data_inicio, data_fim, exclusoes)
       IN  /\ df_outro' = r.linhas
           /\ parciais_outro' = r.parciais
           /\ erro_outro' = r.erro
    /\ df_filtrado' = FonteAposFiltrar(df_filtrado)
    /\ etapa' = "refiltrado"
    /\ UNCHANGED <<entradas, erro, parciais, agregados>>
    /\ UNCHANGED <<execucao, planilhas>>

\* The orders of the four filters that convert the dates before they
\* compare them with the period.
Permutacoes ==
    {o \in [1..4 -> {"pagamento", "datas", "periodo", "exclusoes"}] :
        /\ \A i, j \in 1..4 : i # j => o[i] # o[j]
        /\ \E i, j \in 1..4 : i < j /\ o[i] = "datas" /\ o[j] = "periodo"}

\* The same filters on the same sheet, applied in another order.
FiltrarEmOutraOrdem ==
    /\ etapa = "filtrado"
    /\ \E ordem \in Permutacoes :
        LET r == AplicarPassos(ordem, transacoes, << >>, dtype_pgto,
                               data_inicio, data_fim, exclusoes)
        IN  /\ df_outro' = r.linhas
            /\ parciais_outro' = r.parciais
            /\ erro_outro' = r.erro
    /\ etapa' = "permutado"
    /\ UNCHANGED <<entradas, primeira, agregados>>
    /\ UNCHANGED <<execucao, planilhas>>

\* relatorios = agrupar_por_operacao(df_filtrado)
AgruparPorOperacao ==
    /\ etapa = "filtrado"
    /\ erro = ""
    /\ relatorios' = agrupar_por_operacao(df_filtrado)
    /\ df_filtrado' = FiltradoAposAgrupar(df_filtrado)
    /\ etapa' = "agrupado"
    /\ UNCHANGED <<entradas, erro, parciais, segunda, erro_resumo, df_resumo, imagens>>
    /\ UNCHANGED <<execucao, planilhas>>

\* df_resumo = gerar_resumo_geral(relatorios)
GerarResumoGeral ==
    /\ etapa = "agrupado"
    /\ \E r \in gerar_resumo_geral(relatorios) :
        /\ df_resumo' = r.linhas
        /\ erro_resumo' = r.erro
    /\ relatorios' = TabelasAposResumo(relatorios)
    /\ etapa' = "resumido"
    /\ UNCHANGED <<entradas, primeira, segunda, imagens>>
    /\ UNCHANGED <<execucao, planilhas>>

\* imagens = gerar_todas_imagens(relatorios, df_resumo, periodo)
GerarTodasImagens ==
    /\ etapa = "resumido"
    /\ erro_resumo = ""
    /\ imagens' = gerar_todas_imagens(relatorios, df_resumo)
    /\ relatorios' = TabelasAposImagens(relatorios)
    /\ etapa' = "imagens"
    /\ UNCHANGED <<entradas, primeira, segunda, erro_resumo, df_resumo>>
    /\ UNCHANGED <<execucao, planilhas>>

\* gerar_planilha_operacao(df_filtrado, operacao, data_inicio, data_fim, pasta)
GerarPlanilhaOperacao ==
    /\ etapa = "filtrado"
    /\ erro = ""
    /\ \E operacao \in OperacoesLidas :
       \E r \in gerar_planilha_operacao(df_filtrado, operacao, data_inicio, data_fim) :
          planilhas' = Append(planilhas, r)
    /\ etapa' = "exportado"
    /\ UNCHANGED <<entradas, primeira, segunda, agregados, execucao>>

\* ------------------------------------------------------------------------
\* The three functions on the sheets of three rows around the worked example
\* ------------------------------------------------------------------------
\* The rows of the example: two cash rows of agent X on 05/01/2026, one card
\* row of agent Y on 06/01/2026, all of unit A.
LinhaDoCenario(pgto, entregador, data, valor) ==
    [pgto |-> pgto, data |-> data, operacao |-> "A", entregador |-> entregador,
     valor |-> valor]
CenarioX100 == LinhaDoCenario("Dinheiro/PIX", "X", Texto(5, 1, 2026), 100)
CenarioX50 == LinhaDoCenario("Dinheiro/PIX", "X", Texto(5, 1, 2026), 50)
CenarioY200 == LinhaDoCenario("Cartão", "Y", Texto(6, 1, 2026), 200)

\* Those rows, each with either payment method.
CelulasDoCenario ==
    {[c EXCEPT !.pgto = p] : c \in {CenarioX100, CenarioX50, CenarioY200},
                             p \in {"Dinheiro/PIX", "Cartão"}}
PlanilhasDoCenario == {ComIndice(cs) : cs \in [1..3 -> CelulasDoCenario]}
PeriodosDoCenario ==
    {<<Texto(1, 1, 2026), Texto(31, 1, 2026)>>, <<Texto(6, 1, 2026), Texto(31, 1, 2026)>>}

InitCenario ==
    /\ transacoes \in PlanilhasDoCenario
    /\ dtype_pgto = InferirDtype(transacoes)
    /\ \E p \in PeriodosDoCenario : data_inicio = p[1] /\ data_fim = p[2]
    /\ exclusoes \in {<< >>, <<"X">>}
    /\ etapa = "carregado"
    /\ erro = ""
    /\ df_filtrado = << >>
    /\ parciais = << >>
    /\ erro_outro = ""
    /\ df_outro = << >>
    /\ parciais_outro = << >>
    /\ relatorios = << >>
    /\ erro_resumo = ""
    /\ df_resumo = << >>
    /\ imagens = << >>
    /\ planilhas = << >>
    /\ SemPrograma

NextCenario ==
    \/ FiltrarDados
    \/ AgruparPorOperacao
    \/ GerarResumoGeral

SpecCenario == InitCenario /\ [][NextCenario]_vars

\* ------------------------------------------------------------------------
\* main.py: main
\* ------------------------------------------------------------------------
\* What the entry points are run on: sheets of cash and blank payments, of
\* units whose names differ in letter case only or not only.
OperacoesDoPrograma == {"A", "a", "B"}
CelulasDoPrograma ==
    [pgto : {"Dinheiro/PIX", NaN}, data : {Texto(5, 1, 2026)},
     operacao : OperacoesDoPrograma, entregador : {"X"}, valor : {100}]
PlanilhasDoPrograma ==
    UNION {{ComIndice(cs) : cs \in [1..n -> CelulasDoPrograma]} : n \in 0..MaxLinhas}
ExclusoesDoPrograma == {<< >>, <<"X">>}

\* The payment column as read_excel gives it: with the dtype pandas infers,
\* or not there at all when the sheet has no column of that name.
DtypesPossiveis(linhas) == {InferirDtype(linhas), "ausente"}

\* The notices the entry points print.
AVISO_DATA_FIM == "ATENÇÃO: Data fim é anterior à data início!"
NENHUM_DADO == "NENHUM DADO ENCONTRADO!"
NENHUM_RELATORIO == "NENHUM RELATÓRIO GERADO!"
SUCESSO == "RELATÓRIOS GERADOS COM SUCESSO!"
CANCELADO == "Processo cancelado pelo usuário (Ctrl+C)"
NENHUM_ARQUIVO == "Nenhum arquivo foi gerado."
ERRO_INESPERADO == "ERRO INESPERADO!"
NAO_ENCONTRADA == "ERRO: Planilha não encontrada!"

\* main as it would be if it went back to the filter after the aggregation.
ProximaEtapaComVolta(ponto) ==
    CASE ponto = "inicio"   -> "carregar"
      [] ponto = "carregou" -> "datas"
      [] ponto = "datas"    -> "filtrar"
      [] ponto = "filtrou"  -> "agrupar"
      [] ponto = "agrupou"  -> IF Len(executadas) < 6 THEN "filtrar" ELSE "resumir"
      [] ponto = "resumiu"  -> "imagens"
      [] ponto = "imagens"  -> "imagens"
      [] OTHER              -> "nenhuma"

\* The stage main runs from each point of its body: ETAPA 1 to ETAPA 6, one
\* after the other.
ProximaEtapa(ponto) ==
    CASE ponto = "inicio"   -> "carregar"
      [] ponto = "carregou" -> "datas"
      [] ponto = "datas"    -> "filtrar"
      [] ponto = "filtrou"  -> "agrupar"
      [] ponto = "agrupou"  -> "resumir"
      [] ponto = "resumiu"  -> "imagens"
      [] ponto = "imagens"  -> "imagens"
      [] OTHER              -> "nenhuma"

\* main as it would be without the checks of len(...) == 0.
SemDadosNunca(resultado) == FALSE

\* if len(df_filtrado) == 0 / if len(relatorios) == 0
SemDados(resultado) == Len(resultado) = 0

\* The handlers as they would be if every one ended with sys.exit(0).
CodigoDeSaidaZero(excecao) == "exit 0"

\* The code the except clauses of main give to sys.exit.
CodigoDeSaida(excecao) ==
    IF excecao = "KeyboardInterrupt" THEN "exit 0" ELSE "exit 1"

\* main.obter_datas: the warning it prints when the end is before the start.
AvisosDeObterDatas(inicio, fim) ==
    IF ParseData(fim).ts < ParseData(inicio).ts THEN {AVISO_DATA_FIM} ELSE {}

dados == <<transacoes, dtype_pgto, exclusoes>>
periodo == <<data_inicio, data_fim>>
fora_de_main == <<erro_outro, df_outro, parciais_outro, digitadas,
                  operacoes_selecionadas, planilhas>>

\* Nothing loaded, nothing typed.
NadaCarregado ==
    /\ transacoes = << >>
    /\ dtype_pgto = "object"
    /\ data_inicio = NaT
    /\ data_fim = NaT
    /\ exclusoes = << >>
    /\ etapa = "inicio"
    /\ erro = ""
    /\ df_filtrado = << >>
    /\ parciais = << >>
    /\ erro_outro = ""
    /\ df_outro = << >>
    /\ parciais_outro = << >>
    /\ relatorios = << >>
    /\ erro_resumo = ""
    /\ df_resumo = << >>
    /\ imagens = << >>
    /\ planilhas = << >>
    /\ executadas = << >>
    /\ mensagens = {}
    /\ status = "rodando"
    /\ digitadas = << >>
    /\ operacoes_selecionadas = << >>

InitMain == programa = "main" /\ NadaCarregado

\* except Exception: the message, then sys.exit.
Excecao(classe) ==
    /\ mensagens' = mensagens \cup {ERRO_INESPERADO}
    /\ status' = CodigoDeSaida(classe)
    /\ etapa' = "fim"

\* return from main.
Retornar(aviso) ==
    /\ mensagens' = mensagens \cup {aviso}
    /\ status' = "retornou"
    /\ etapa' = "fim"

\* ETAPA 1: without the file main returns; with it, carregar_planilha.
MainCarregar ==
    /\ programa = "main"
    /\ ProximaEtapa(etapa) = "carregar"
    /\ executadas' = Append(executadas, "carregar")
    /\ \/ /\ Retornar(NAO_ENCONTRADA)
          /\ UNCHANGED dados
       \/ /\ \E planilha \in PlanilhasDoPrograma :
             \E dtype \in DtypesPossiveis(planilha) :
             \E lista \in ExclusoesDoPrograma :
                /\ transacoes' = planilha
                /\ dtype_pgto' = dtype
                /\ exclusoes' = lista
          /\ etapa' = "carregou"
          /\ UNCHANGED <<mensagens, status>>
    /\ UNCHANGED <<periodo, primeira, agregados, programa, fora_de_main>>

\* ETAPA 2: obter_datas.
MainObterDatas ==
    /\ programa = "main"
    /\ ProximaEtapa(etapa) = "datas"
    /\ \E inicio \in DatasUsuario : \E fim \in DatasUsuario :
          /\ data_inicio' = inicio
          /\ data_fim' = fim
          /\ mensagens' = mensagens \cup AvisosDeObterDatas(inicio, fim)
    /\ executadas' = Append(executadas, "datas")
    /\ etapa' = "datas"
    /\ UNCHANGED <<dados, primeira, agregados, status, programa, fora_de_main>>

\* ETAPA 3: filtrar_dados, and the check of an empty result.
MainFiltrar ==
    /\ programa = "main"
    /\ ProximaEtapa(etapa) = "filtrar"
    /\ executadas' = Append(executadas, "filtrar")
    /\ LET r == filtrar_dados(transacoes, dtype_pgto, data_inicio, data_fim, exclusoes)
       IN  /\ erro' = r.erro
           /\ parciais' = r.parciais
           /\ df_filtrado' = r.linhas
           /\ IF r.erro # "" THEN Excecao(r.erro)
              ELSE IF SemDados(r.linhas) THEN Retornar(NENHUM_DADO)
              ELSE etapa' = "filtrou" /\ UNCHANGED <<mensagens, status>>
    /\ transacoes' = FonteAposFiltrar(transacoes)
    /\ UNCHANGED <<dtype_pgto, exclusoes, periodo, agregados, programa, fora_de_main>>

\* ETAPA 4: agrupar_por_operacao, and the check of an empty mapping.
MainAgrupar ==
    /\ programa = "main"
    /\ ProximaEtapa(etapa) = "agrupar"
    /\ executadas' = Append(executadas, "agrupar")
    /\ relatorios' = agrupar_por_operacao(df_filtrado)
    /\ df_filtrado' = FiltradoAposAgrupar(df_filtrado)
    /\ IF SemDados(agrupar_por_operacao(df_filtrado)) THEN Retornar(NENHUM_RELATORIO)
       ELSE etapa' = "agrupou" /\ UNCHANGED <<mensagens, status>>
    /\ UNCHANGED <<dados, periodo, erro, parciais, erro_resumo, df_resumo, imagens,
                   programa, fora_de_main>>

\* ETAPA 5: gerar_resumo_geral.
MainResumir ==
    /\ programa = "main"
    /\ ProximaEtapa(etapa) = "resumir"
    /\ executadas' = Append(executadas, "resumir")
    /\ \E r \in gerar_resumo_geral(relatorios) :
          /\ erro_resumo' = r.erro
          /\ df_resumo' = r.linhas
          /\ IF r.erro # "" THEN Excecao(r.erro)
             ELSE etapa' = "resumiu" /\ UNCHANGED <<mensagens, status>>
    /\ relatorios' = TabelasAposResumo(relatorios)
    /\ UNCHANGED <<dados, periodo, primeira, imagens, programa, fora_de_main>>

\* ETAPA 6: gerar_todas_imagens writes the images one savefig after the
\* other; this is the next one.
MainImagem ==
    /\ programa = "main"
    /\ ProximaEtapa(etapa) = "imagens"
    /\ LET todas == gerar_todas_imagens(relatorios, df_resumo)
           k == Len(imagens) + 1
       IN  /\ imagens' = Append(imagens, todas[k])
           /\ etapa' = IF k = Len(todas) THEN "imagens prontas" ELSE "imagens"
    /\ executadas' = IF etapa = "resumiu" THEN Append(executadas, "imagens")
                     ELSE executadas
    /\ relatorios' = TabelasAposImagens(relatorios)
    /\ UNCHANGED <<dados, periodo, primeira, erro_resumo, df_resumo, mensagens,
                   status, programa, fora_de_main>>

\* The report of success that ends the body of main.
MainConcluir ==
    /\ programa = "main"
    /\ etapa = "imagens prontas"
    /\ Retornar(SUCESSO)
    /\ UNCHANGED <<dados, periodo, primeira, agregados, executadas, programa,
                   fora_de_main>>

\* except KeyboardInterrupt: Ctrl+C at any point of the body.
MainInterromper ==
    /\ programa = "main"
    /\ etapa # "fim"
    /\ mensagens' = mensagens \cup {CANCELADO, NENHUM_ARQUIVO}
    /\ status' = CodigoDeSaida("KeyboardInterrupt")
    /\ etapa' = "fim"
    /\ UNCHANGED <<dados, periodo, primeira, agregados, executadas, programa,
                   fora_de_main>>

NextMain ==
    \/ MainCarregar
    \/ MainObterDatas
    \/ MainFiltrar
    \/ MainAgrupar
    \/ MainResumir
    \/ MainImagem
    \/ MainConcluir
    \/ MainInterromper

SpecMain == InitMain /\ [][NextMain]_vars

\* ------------------------------------------------------------------------
\* gerar_planilhas.py: obter_operacoes_desejadas and main
\* ------------------------------------------------------------------------
\* str.upper() on one character, on a sequence of characters.
Maiuscula(c) ==
    CASE c = "a" -> "A" [] c = "b" -> "B" [] c = "c" -> "C" [] c = "d" -> "D"
      [] c = "o" -> "O" [] c = "s" -> "S" [] c = "t" -> "T" [] OTHER -> c
Upper(cs) == [i \in 1..Len(cs) |-> Maiuscula(cs[i])]

\* str.strip(): the text without the blanks at its ends.
RECURSIVE StripEsquerda(_)
StripEsquerda(cs) ==
    IF cs # << >> /\ Head(cs) = " " THEN StripEsquerda(Tail(cs)) ELSE cs
RECURSIVE StripDireita(_)
StripDireita(cs) ==
    IF cs # << >> /\ cs[Len(cs)] = " "
    THEN StripDireita(SubSeq(cs, 1, Len(cs) - 1)) ELSE cs
Strip(cs) == StripDireita(StripEsquerda(cs))

\* str.split(sep): the pieces between the separators, empty ones included.
RECURSIVE Split(_, _)
Split(cs, sep) ==
    IF \A i \in 1..Len(cs) : cs[i] # sep THEN <<cs>>
    ELSE LET i == CHOOSE k \in 1..Len(cs) :
                        cs[k] = sep /\ \A j \in 1..(k - 1) : cs[j] # sep
         IN  <<SubSeq(cs, 1, i - 1)>> \o Split(SubSeq(cs, i + 1, Len(cs)), sep)

TODOS == <<"t", "o", "d", "o", "s">>

\* What the user may type at the prompt "Operações: ".
EntradasDigitaveis ==
    {<< >>, <<" ">>, TODOS, <<"T", "o", "d", "O", "S">>, <<"a">>, <<"B">>,
     <<" ", "a", " ", ";", " ", "b", " ">>, <<"a", ";", "c">>, <<"a", ";">>}

\* sorted(df_filtrado[OPERAÇÃO].unique())
OperacoesDisponiveis(df) == OrdenarTextos(Rotulos(Coluna(df, "operacao")))

\* [op.strip().upper() for op in entrada.split(';')]
OperacoesInput(entrada) ==
    LET partes == Split(entrada, ";")
    IN  [i \in 1..Len(partes) |-> Upper(Strip(partes[i]))]

\* op in operacoes_disponiveis, and the member that equals op.
Disponivel(op, disponiveis) == \E i \in 1..Len(disponiveis) : Chars(disponiveis[i]) = op
ADisponivel(op, disponiveis) ==
    disponiveis[CHOOSE i \in 1..Len(disponiveis) : Chars(disponiveis[i]) = op]

\* LerOperacoes as it would be if it returned the names it found whenever it
\* found one.
LerOperacoesAchadas(crua, disponiveis) ==
    LET entrada == Strip(crua)
        validas == SelectSeq(OperacoesInput(entrada),
                             LAMBDA op : Disponivel(op, disponiveis))
    IN  IF entrada = << >> THEN [aceita |-> FALSE, operacoes |-> << >>]
        ELSE IF Lower(entrada) = TODOS THEN [aceita |-> TRUE, operacoes |-> disponiveis]
        ELSE IF validas # << >>
             THEN [aceita |-> TRUE,
                   operacoes |-> [i \in 1..Len(validas) |->
                                    ADisponivel(validas[i], disponiveis)]]
        ELSE [aceita |-> FALSE, operacoes |-> << >>]

\* One pass of the while loop of obter_operacoes_desejadas on what was typed:
\* whether it returns, and what.
LerOperacoes(crua, disponiveis) ==
    LET entrada == Strip(crua)
        operacoes_input == OperacoesInput(entrada)
        operacoes_validas == SelectSeq(operacoes_input,
                                       LAMBDA op : Disponivel(op, disponiveis))
        operacoes_invalidas == SelectSeq(operacoes_input,
                                         LAMBDA op : ~Disponivel(op, disponiveis))
    IN  IF entrada = << >> THEN [aceita |-> FALSE, operacoes |-> << >>]
        ELSE IF Lower(entrada) = TODOS THEN [aceita |-> TRUE, operacoes |-> disponiveis]
        ELSE IF operacoes_invalidas # << >> THEN [aceita |-> FALSE, operacoes |-> << >>]
        ELSE IF operacoes_validas # << >>
             THEN [aceita |-> TRUE,
                   operacoes |-> [i \in 1..Len(operacoes_validas) |->
                                    ADisponivel(operacoes_validas[i], disponiveis)]]
        ELSE [aceita |-> FALSE, operacoes |-> << >>]

\* The notices of gerar_planilhas.py.
SEM_DADOS_NO_PERIODO == "Nenhum dado encontrado no período!"
PLANILHAS_GERADAS == "PLANILHAS GERADAS COM SUCESSO!"
CANCELADO_PLANILHAS == "Processo cancelado (Ctrl+C)"
ERRO_PLANILHAS == "ERRO:"
NENHUMA_OPERACAO == "Nenhuma operação encontrada!"

\* gerar_planilhas.obter_datas: it prints nothing about the order of the two
\* dates.
AvisosDeObterDatasPlanilhas(inicio, fim) == {}

fora_de_planilhas == <<erro_outro, df_outro, parciais_outro, agregados>>

InitPlanilhas == programa = "gerar_planilhas" /\ NadaCarregado

\* ETAPA 1: without the file main returns; with it, carregar_planilha.
PlanCarregar ==
    /\ programa = "gerar_planilhas"
    /\ etapa = "inicio"
    /\ executadas' = Append(executadas, "carregar")
    /\ \/ /\ Retornar(NAO_ENCONTRADA)
          /\ UNCHANGED dados
       \/ /\ \E planilha \in PlanilhasDoPrograma :
             \E dtype \in DtypesPossiveis(planilha) :
             \E lista \in ExclusoesDoPrograma :
                /\ transacoes' = planilha
                /\ dtype_pgto' = dtype
                /\ exclusoes' = lista
          /\ etapa' = "carregou"
          /\ UNCHANGED <<mensagens, status>>
    /\ UNCHANGED <<periodo, primeira, programa, digitadas, operacoes_selecionadas,
                   planilhas, fora_de_planilhas>>

\* ETAPA 2: obter_datas.
PlanObterDatas ==
    /\ programa = "gerar_planilhas"
    /\ etapa = "carregou"
    /\ \E inicio \in DatasUsuario : \E fim \in DatasUsuario :
          /\ data_inicio' = inicio
          /\ data_fim' = fim
          /\ mensagens' = mensagens \cup AvisosDeObterDatasPlanilhas(inicio, fim)
    /\ executadas' = Append(executadas, "datas")
    /\ etapa' = "datas"
    /\ UNCHANGED <<dados, primeira, status, programa, digitadas,
                   operacoes_selecionadas, planilhas, fora_de_planilhas>>

\* ETAPA 3: filtrar_dados, and the check of an empty result.
PlanFiltrar ==
    /\ programa = "gerar_planilhas"
    /\ etapa = "datas"
    /\ executadas' = Append(executadas, "filtrar")
    /\ LET r == filtrar_dados(transacoes, dtype_pgto, data_inicio, data_fim, exclusoes)
       IN  /\ erro' = r.erro
           /\ parciais' = r.parciais
           /\ df_filtrado' = r.linhas
           /\ IF r.erro # ""
              THEN /\ mensagens' = mensagens \cup {ERRO_PLANILHAS}
                   /\ status' = CodigoDeSaida(r.erro)
                   /\ etapa' = "fim"
              ELSE IF SemDados(r.linhas) THEN Retornar(SEM_DADOS_NO_PERIODO)
              ELSE etapa' = "filtrou" /\ UNCHANGED <<mensagens, status>>
    /\ transacoes' = FonteAposFiltrar(transacoes)
    /\ UNCHANGED <<dtype_pgto, exclusoes, periodo, programa, digitadas,
                   operacoes_selecionadas, planilhas, fora_de_planilhas>>

\* ETAPA 4: without a unit main returns; with one,
\* obter_operacoes_desejadas: this is one answer to its prompt.
PlanDigitar ==
    /\ programa = "gerar_planilhas"
    /\ etapa \in {"filtrou", "pergunta"}
    /\ Len(digitadas) < MaxTentativas
    /\ executadas' = IF etapa = "filtrou" THEN Append(executadas, "selecionar")
                     ELSE executadas
    /\ IF SemDados(OperacoesDisponiveis(df_filtrado))
       THEN /\ Retornar(NENHUMA_OPERACAO)
            /\ UNCHANGED <<digitadas, operacoes_selecionadas>>
       ELSE /\ \E crua \in EntradasDigitaveis :
                  LET r == LerOperacoes(crua, OperacoesDisponiveis(df_filtrado))
                  IN  /\ digitadas' = Append(digitadas, crua)
                      /\ operacoes_selecionadas' = r.operacoes
                      /\ etapa' = IF r.aceita THEN "selecionou" ELSE "pergunta"
            /\ UNCHANGED <<mensagens, status>>
    /\ UNCHANGED <<dados, periodo, primeira, programa, planilhas, fora_de_planilhas>>

\* ETAPA 5: gerar_planilha_operacao for the next selected unit.
PlanGerarPlanilha ==
    /\ programa = "gerar_planilhas"
    /\ etapa \in {"selecionou", "gerando"}
    /\ executadas' = IF etapa = "selecionou" THEN Append(executadas, "gerar")
                     ELSE executadas
    /\ LET k == Len(planilhas) + 1
       IN  /\ \E r \in gerar_planilha_operacao(df_filtrado, operacoes_selecionadas[k],
                                               data_inicio, data_fim) :
                  planilhas' = Append(planilhas, r)
           /\ etapa' = IF k = Len(operacoes_selecionadas) THEN "planilhas prontas"
                       ELSE "gerando"
    /\ UNCHANGED <<dados, periodo, primeira, mensagens, status, programa,
                   digitadas, operacoes_selecionadas, fora_de_planilhas>>

\* The report that ends the body of main.
PlanConcluir ==
    /\ programa = "gerar_planilhas"
    /\ etapa = "planilhas prontas"
    /\ Retornar(PLANILHAS_GERADAS)
    /\ UNCHANGED <<dados, periodo, primeira, executadas, programa, digitadas,
                   operacoes_selecionadas, planilhas, fora_de_planilhas>>

\* except KeyboardInterrupt: Ctrl+C at any point of the body.
PlanInterromper ==
    /\ programa = "gerar_planilhas"
    /\ etapa # "fim"
    /\ mensagens' = mensagens \cup {CANCELADO_PLANILHAS}
    /\ status' = CodigoDeSaida("KeyboardInterrupt")
    /\ etapa' = "fim"
    /\ UNCHANGED <<dados, periodo, primeira, executadas, programa, digitadas,
                   operacoes_selecionadas, planilhas, fora_de_planilhas>>

NextPlanilhas ==
    \/ PlanCarregar
    \/ PlanObterDatas
    \/ PlanFiltrar
    \/ PlanDigitar
    \/ PlanGerarPlanilha
    \/ PlanConcluir
    \/ PlanInterromper

SpecPlanilhas == InitPlanilhas /\ [][NextPlanilhas]_vars

\* ------------------------------------------------------------------------
\* Properties
\* ------------------------------------------------------------------------
Indices(df) == {df[i].idx : i \in 1..Len(df)}

\* The four predicates of the filter stage, on a row of the sheet.
TemDinheiro(r) ==
    r.pgto # NaN /\ Contains(Lower(Chars(r.pgto)), <<"d","i","n","h","e","i","r","o">>)
DataValida(r) == ParseData(r.data) # NaT
NoPeriodo(t) ==
    ParseData(data_inicio).ts <= t.ts /\ t.ts <= ParseData(data_fim).ts
Excluido(r) == \E i \in 1..Len(exclusoes) : exclusoes[i] = r.entregador
Satisfaz(r) ==
    TemDinheiro(r) /\ DataValida(r) /\ NoPeriodo(ParseData(r.data)) /\ ~Excluido(r)

\* The rows of the sheet that satisfy the four predicates, in the order of
\* the sheet, each once, with the date as parsed.
Esperado ==
    LET mantidas == SelectSeq(transacoes, Satisfaz)
    IN  [i \in 1..Len(mantidas) |->
            [mantidas[i] EXCEPT !.data = ParseData(mantidas[i].data)]]

Filtrou == etapa # "carregado"
Agrupou == etapa \in {"agrupado", "resumido", "imagens"}
PeriodoInvertido == ParseData(data_fim).ts < ParseData(data_inicio).ts

\* C1: for every sheet, period and exclusion list, filtrar_dados returns
\* exactly the rows that satisfy the four predicates, none added, none twice,
\* in the order of the sheet.
C1_RetornaOsQueSatisfazem ==
    Filtrou => (erro = "" /\ df_filtrado = Esperado)

\* Whenever filtrar_dados does return, it returns those rows.
RetornoExato ==
    (Filtrou /\ erro = "") => df_filtrado = Esperado

\* C2: the payment filter keeps a row if and only if its payment method,
\* lower-cased, contains "dinheiro"; a row with no payment method is dropped
\* and never makes the call fail.
C2_FiltroPagamento ==
    Filtrou =>
        /\ erro = ""
        /\ Len(parciais) >= 1
        /\ \A i \in 1..Len(transacoes) :
              (transacoes[i].idx \in Indices(parciais[1])) <=> TemDinheiro(transacoes[i])

\* The tables and the summary that the sheet without its rows of unparseable
\* date gives.
SemInvalidas == SelectSeq(transacoes, DataValida)
RelatoriosSemInvalidas ==
    agrupar_por_operacao(
        filtrar_dados(SemInvalidas, dtype_pgto, data_inicio, data_fim, exclusoes).linhas)

\* C3: a row whose date does not parse as day/month/year is dropped by
\* filtrar_dados without an error, and no cell of a unit table and no row of
\* the summary gets anything from it.
C3_DataInvalidaDescartada ==
    (Filtrou /\ \E i \in 1..Len(transacoes) : ~DataValida(transacoes[i])) =>
        /\ erro = ""
        /\ \A i \in 1..Len(transacoes) :
              ~DataValida(transacoes[i]) => transacoes[i].idx \notin Indices(df_filtrado)
        /\ Agrupou => relatorios = RelatoriosSemInvalidas
        /\ etapa = "resumido" =>
              [erro |-> erro_resumo, linhas |-> df_resumo]
                  \in gerar_resumo_geral(RelatoriosSemInvalidas)

MantidaPeloPeriodo(r) == r.idx \in Indices(parciais[3])

\* C4, as stated: a row whose date equals data_inicio or equals data_fim is
\* kept by the period filter, and a row is kept by it if and only if
\* data_inicio <= date <= data_fim.
C4_ExtremosSempreMantidos ==
    (Filtrou /\ erro = "") =>
        \A i \in 1..Len(parciais[2]) :
            LET r == parciais[2][i]
            IN  /\ (r.data = ParseData(data_inicio) \/ r.data = ParseData(data_fim))
                      => MantidaPeloPeriodo(r)
                /\ MantidaPeloPeriodo(r) <=> NoPeriodo(r.data)

\* C4, amended: the period filter keeps a row if and only if
\* data_inicio <= date <= data_fim, so when data_inicio <= data_fim a row
\* whose date equals either end is kept; the filter adds no row.
C4_PeriodoInclusivo ==
    (Filtrou /\ erro = "") =>
        /\ Indices(parciais[3]) \subseteq Indices(parciais[2])
        /\ \A i \in 1..Len(parciais[2]) :
              LET r == parciais[2][i]
              IN  /\ (/\ ~PeriodoInvertido
                      /\ (r.data = ParseData(data_inicio) \/ r.data = ParseData(data_fim)))
                        => MantidaPeloPeriodo(r)
                  /\ MantidaPeloPeriodo(r) <=> NoPeriodo(r.data)

\* A period of two days with a row kept at each end.
C4_Testemunha ==
    /\ etapa = "filtrado" /\ erro = ""
    /\ ParseData(data_inicio).ts < ParseData(data_fim).ts
    /\ \E i, j \in 1..Len(parciais[3]) :
          /\ parciais[3][i].data = ParseData(data_inicio)
          /\ parciais[3][j].data = ParseData(data_fim)

\* C5: with data_fim before data_inicio filtrar_dados does not fail: for
\* every sheet it completes and returns an empty dataset.
C5_PeriodoInvertidoVazio ==
    (Filtrou /\ PeriodoInvertido) => (erro = "" /\ df_filtrado = << >>)

\* C6: no row returned by filtrar_dados has an agent of the exclusion list,
\* and the exclusion filter drops a row only when its agent is equal to a
\* member of the list (a name that differs in letter case is no member).
C6_Exclusao ==
    (Filtrou /\ erro = "") =>
        /\ \A i \in 1..Len(df_filtrado) : ~Excluido(df_filtrado[i])
        /\ Indices(parciais[4]) \subseteq Indices(parciais[3])
        /\ \A i \in 1..Len(parciais[3]) :
              parciais[3][i].idx \notin Indices(parciais[4]) => Excluido(parciais[3][i])

\* The list holds "x" and "TOTAL": a row of agent TOTAL was dropped and a row
\* of agent X was kept.
C6_Testemunha ==
    /\ etapa = "filtrado" /\ erro = ""
    /\ exclusoes = <<"x", "TOTAL">>
    /\ \E i \in 1..Len(parciais[3]) :
          parciais[3][i].entregador = "TOTAL"
    /\ \E i \in 1..Len(df_filtrado) : df_filtrado[i].entregador = "X"

\* C7: filtrar_dados applied with the same arguments to what it returned
\* returns the same rows in the same order.
C7_Idempotente ==
    etapa = "refiltrado" => (erro_outro = "" /\ df_outro = df_filtrado)

\* The second call ran on a result that kept some rows and dropped some.
C7_Testemunha ==
    /\ etapa = "refiltrado"
    /\ Len(df_filtrado) >= 1
    /\ Len(df_filtrado) < Len(transacoes)
    /\ df_outro = df_filtrado

Contagens(ps) == [i \in 1..Len(ps) |-> Len(ps[i])]

\* C8: the four filters applied in any order that parses the dates before it
\* compares them give what filtrar_dados gives; only the counts after each
\* step differ.
C8_OrdemIndiferente ==
    etapa = "permutado" => (erro_outro = erro /\ df_outro = df_filtrado)

\* Another order gave other counts and the same rows.
C8_Testemunha ==
    /\ etapa = "permutado" /\ erro = ""
    /\ Len(df_outro) >= 1
    /\ Contagens(parciais_outro) # Contagens(parciais)
    /\ df_outro = df_filtrado

Chaves(rel) == {rel[i].operacao : i \in 1..Len(rel)}

\* C9: the keys of the mapping agrupar_por_operacao returns are the distinct
\* units of the filtered dataset, each once: none is left out, none without
\* a record is made, and the empty dataset gives the empty mapping.
C9_ChavesSaoAsOperacoes ==
    Agrupou =>
        /\ Chaves(relatorios) = {df_filtrado[i].operacao : i \in 1..Len(df_filtrado)}
        /\ Cardinality(Chaves(relatorios)) = Len(relatorios)
        /\ df_filtrado = << >> => relatorios = << >>

\* Two units of one record each: both are keys.
C9_Testemunha ==
    /\ etapa = "agrupado"
    /\ Len(df_filtrado) = 2
    /\ Chaves(relatorios) = {"A", "B"}

\* C10: in every unit table the cell of an agent and a date is the sum of the
\* amounts of the filtered rows of that unit, agent and date (rows of the
\* same agent and date are added up); every row that names its agent has
\* its cell.
C10_CelulaSomaOsRegistros ==
    Agrupou =>
        \A i \in 1..Len(relatorios) :
            LET regs == SelectSeq(df_filtrado,
                            LAMBDA r : r.operacao = relatorios[i].operacao)
                cel == relatorios[i].tabela.cel
            IN  /\ \A j \in 1..Len(regs) :
                      regs[j].entregador # NaN =>
                          <<regs[j].entregador, regs[j].data>> \in DOMAIN cel
                /\ \A a \in {regs[j].entregador : j \in 1..Len(regs)} \ {NaN} :
                   \A d \in {regs[j].data : j \in 1..Len(regs)} :
                      <<a, d>> \in DOMAIN cel =>
                          cel[<<a, d>>] =
                              SomaValores(SelectSeq(regs,
                                  LAMBDA r : r.entregador = a /\ r.data = d))

\* The filtered rows of a unit, the agents they name and their dates.
RegistrosDaUnidade(operacao) ==
    SelectSeq(df_filtrado, LAMBDA r : r.operacao = operacao)
AgentesDe(regs) == {regs[j].entregador : j \in 1..Len(regs)} \ {NaN}
DatasDe(regs) == {regs[j].data : j \in 1..Len(regs)}

\* C11: in every unit table every pair of an agent of the unit and a date of
\* the unit has a cell, and the cell is 0 when the unit has no row of that
\* agent on that date.
C11_PivoDenso ==
    Agrupou =>
        \A i \in 1..Len(relatorios) :
            LET regs == RegistrosDaUnidade(relatorios[i].operacao)
                cel == relatorios[i].tabela.cel
            IN  \A a \in AgentesDe(regs) : \A d \in DatasDe(regs) :
                    /\ <<a, d>> \in DOMAIN cel
                    /\ (~\E j \in 1..Len(regs) :
                            regs[j].entregador = a /\ regs[j].data = d)
                          => cel[<<a, d>>] = 0

\* The rows of a table but the TOTAL row, its columns but the Total column.
LinhasDeAgente(tabela) == Rotulos(tabela.index) \ {LinhaTotal}
ColunasDeData(tabela) == Rotulos(tabela.columns) \ {ColTotal}

\* C12: in every unit table the TOTAL row holds, for every date column, the
\* sum of the agent rows in it; the Total column holds, for every agent row,
\* the sum of its date cells; the cell (TOTAL, Total) is the sum of the
\* agents' Total cells and the sum of the date cells of the TOTAL row.
C12_TotaisDeLinhaEColuna ==
    Agrupou =>
        \A i \in 1..Len(relatorios) :
            LET t == relatorios[i].tabela
                agentes == LinhasDeAgente(t)
                datas == ColunasDeData(t)
            IN  /\ \A d \in datas :
                      t.cel[<<LinhaTotal, d>>] = SomaCelulas(t.cel, agentes \X {d})
                /\ \A a \in agentes :
                      t.cel[<<a, ColTotal>>] = SomaCelulas(t.cel, {a} \X datas)
                /\ t.cel[<<LinhaTotal, ColTotal>>] =
                      SomaCelulas(t.cel, agentes \X {ColTotal})
                /\ t.cel[<<LinhaTotal, ColTotal>>] =
                      SomaCelulas(t.cel, {LinhaTotal} \X datas)

\* C13: for every unit of the mapping the cell (TOTAL, Total) is the sum of
\* the amounts of all the filtered rows of the unit, the rows with no agent
\* included.
C13_TotalGeralDaUnidade ==
    Agrupou =>
        \A i \in 1..Len(relatorios) :
            relatorios[i].tabela.cel[<<LinhaTotal, ColTotal>>] =
                SomaValores(RegistrosDaUnidade(relatorios[i].operacao))

\* C14: in every unit table, whatever the agents are called, the rows are
\* the agents of the unit and one more row, TOTAL, which is the last; the
\* columns are the dates of the unit and one more column, Total, which is
\* the last.
C14_LinhasEColunas ==
    Agrupou =>
        \A i \in 1..Len(relatorios) :
            LET regs == RegistrosDaUnidade(relatorios[i].operacao)
                index == relatorios[i].tabela.index
                columns == relatorios[i].tabela.columns
            IN  /\ Len(index) = Cardinality(AgentesDe(regs)) + 1
                /\ Rotulos(SubSeq(index, 1, Len(index) - 1)) = AgentesDe(regs)
                /\ index[Len(index)] = LinhaTotal
                /\ Len(columns) = Cardinality(DatasDe(regs)) + 1
                /\ Rotulos(SubSeq(columns, 1, Len(columns) - 1)) = DatasDe(regs)
                /\ columns[Len(columns)] = ColTotal

Resumiu == etapa \in {"resumido", "imagens"}

\* The total of the unit table of the i-th item of the mapping.
TotalDaTabela(i) == relatorios[i].tabela.cel[<<LinhaTotal, ColTotal>>]

\* The positions of the summary, its last one left out, that name a unit.
LinhasDaUnidade(operacao) ==
    {j \in 1..(Len(df_resumo) - 1) : df_resumo[j].nome = operacao}

\* C15: for a mapping of n >= 1 units gerar_resumo_geral returns n + 1 rows:
\* every unit has exactly one row, which holds the (TOTAL, Total) cell of the
\* unit's table, and the row named TOTAL is the last.
C15_ResumoUmaLinhaPorUnidade ==
    (Resumiu /\ Len(relatorios) >= 1) =>
        /\ erro_resumo = ""
        /\ Len(df_resumo) = Len(relatorios) + 1
        /\ \A i \in 1..Len(relatorios) :
              /\ Cardinality(LinhasDaUnidade(relatorios[i].operacao)) = 1
              /\ \A j \in LinhasDaUnidade(relatorios[i].operacao) :
                    df_resumo[j].total = TotalDaTabela(i)
        /\ df_resumo[Len(df_resumo)].nome = "TOTAL"

\* A summary of two units of different totals.
C15_Testemunha ==
    /\ etapa = "resumido" /\ erro_resumo = ""
    /\ Len(relatorios) = 2
    /\ Len(df_resumo) = 3
    /\ TotalDaTabela(1) # TotalDaTabela(2)

RECURSIVE SomaAte(_, _)
SomaAte(linhas, n) ==
    IF n = 0 THEN 0 ELSE linhas[n].total + SomaAte(linhas, n - 1)

\* C16: in what gerar_resumo_geral returns, the value of the last row, TOTAL,
\* is the sum of the values of all the other rows.
C16_TotalDoResumo ==
    (Resumiu /\ erro_resumo = "") =>
        df_resumo[Len(df_resumo)].total = SomaAte(df_resumo, Len(df_resumo) - 1)

\* A summary of two units, each with a total above 0.
C16_Testemunha ==
    /\ etapa = "resumido" /\ erro_resumo = ""
    /\ Len(df_resumo) = 3
    /\ df_resumo[1].total > 0 /\ df_resumo[2].total > 0
    /\ df_resumo[3].total = df_resumo[1].total + df_resumo[2].total

\* C17: in what gerar_resumo_geral returns, of two adjacent rows that are
\* not the TOTAL row the first has a total greater than or equal to that of
\* the second.
C17_ResumoDecrescente ==
    (Resumiu /\ erro_resumo = "") =>
        \A i \in 1..(Len(df_resumo) - 2) :
            df_resumo[i].total >= df_resumo[i + 1].total

\* The mapping had the unit of smaller total first: the sort moved it.
C17_Testemunha ==
    /\ etapa = "resumido" /\ erro_resumo = ""
    /\ Len(relatorios) = 2
    /\ TotalDaTabela(1) < TotalDaTabela(2)
    /\ df_resumo[1].nome = relatorios[2].operacao
    /\ df_resumo[2].nome = relatorios[1].operacao

\* C18: in what gerar_resumo_geral returns, two units of equal total are in
\* the order in which the mapping has them.
C18_OrdenacaoEstavel ==
    (Resumiu /\ erro_resumo = "") =>
        \A i, j \in 1..Len(relatorios) :
            (i < j /\ TotalDaTabela(i) = TotalDaTabela(j)) =>
                \A k \in LinhasDaUnidade(relatorios[i].operacao) :
                \A l \in LinhasDaUnidade(relatorios[j].operacao) : k < l

\* C19: with an empty mapping gerar_resumo_geral raises nothing: it returns
\* an empty summary, or a summary of the single row TOTAL of value 0.
C19_ResumoDeMapaVazio ==
    (Resumiu /\ relatorios = << >>) =>
        /\ erro_resumo = ""
        /\ \/ df_resumo = << >>
           \/ df_resumo = <<[nome |-> "TOTAL", total |-> 0]>>

\* C20: no stage changes what it is given: filtrar_dados leaves the sheet as
\* loaded (same rows, same date cells), agrupar_por_operacao leaves the
\* filtered dataset, gerar_resumo_geral and the image generation leave the
\* unit tables.
C20_EntradasIntactas ==
    [][/\ transacoes' = transacoes
       /\ etapa # "carregado" => df_filtrado' = df_filtrado
       /\ Agrupou => relatorios' = relatorios]_vars

\* After the images: the sheet still holds the date texts it was loaded
\* with, while the filtered dataset holds the parsed dates.
C20_Testemunha ==
    /\ etapa = "imagens"
    /\ Len(imagens) = Len(relatorios) + 1
    /\ \E i \in 1..Len(transacoes) : "d" \in DOMAIN transacoes[i].data
    /\ \E i \in 1..Len(df_filtrado) : EhTimestamp(df_filtrado[i].data)

\* The stages an entry point has started.
Executou(nome) == \E i \in 1..Len(executadas) : executadas[i] = nome

EhPrefixo(s, t) == Len(s) <= Len(t) /\ \A i \in 1..Len(s) : s[i] = t[i]

\* C21: in every run of main the stages run in the order load, date input,
\* filter, aggregate, summarize, render, none twice, and each starts with the
\* whole result of the one before.
C21_OrdemDasEtapas ==
    /\ EhPrefixo(executadas,
                 <<"carregar", "datas", "filtrar", "agrupar", "resumir", "imagens">>)
    /\ Executou("agrupar") =>
          /\ erro = ""
          /\ df_filtrado =
                filtrar_dados(transacoes, dtype_pgto, data_inicio, data_fim,
                              exclusoes).linhas
    /\ Executou("resumir") => relatorios = agrupar_por_operacao(df_filtrado)
    /\ Executou("imagens") =>
          /\ erro_resumo = ""
          /\ Resultado(df_resumo) \in gerar_resumo_geral(relatorios)

\* A run that went through the six stages and reported success.
C21_Testemunha ==
    /\ etapa = "fim" /\ status = "retornou"
    /\ SUCESSO \in mensagens
    /\ executadas = <<"carregar", "datas", "filtrar", "agrupar", "resumir", "imagens">>
    /\ Len(imagens) = Len(relatorios) + 1

\* C23: when the filtered dataset is empty, or the mapping is, main stops
\* before the next stage: no aggregation, summary or image follows, so
\* gerar_resumo_geral never gets an empty mapping and no image is written.
C23_ParaSemDados ==
    /\ (Executou("filtrar") /\ erro = "" /\ df_filtrado = << >>) =>
          /\ etapa = "fim"
          /\ executadas = <<"carregar", "datas", "filtrar">>
          /\ imagens = << >>
    /\ (Executou("agrupar") /\ relatorios = << >>) =>
          /\ etapa = "fim"
          /\ executadas = <<"carregar", "datas", "filtrar", "agrupar">>
          /\ imagens = << >>
    /\ Executou("resumir") => relatorios # << >>

\* A sheet with rows, none of which passed the filters: main returned after
\* the filter.
C23_Testemunha ==
    /\ etapa = "fim" /\ status = "retornou"
    /\ NENHUM_DADO \in mensagens
    /\ Len(transacoes) >= 1
    /\ df_filtrado = << >>
    /\ executadas = <<"carregar", "datas", "filtrar">>

\* C24: whenever main handles Ctrl+C and prints "Nenhum arquivo foi gerado",
\* no image has been written in the run.
C24_NenhumArquivoGerado ==
    NENHUM_ARQUIVO \in mensagens => imagens = << >>

\* C26: when a stage raises, it hands on no result, main runs no later stage
\* and the process ends with exit status 1.
C26_ErroEncerraComUm ==
    erro # "" =>
        /\ status = "exit 1"
        /\ etapa = "fim"
        /\ executadas = <<"carregar", "datas", "filtrar">>
        /\ df_filtrado = << >>
        /\ relatorios = << >>
        /\ df_resumo = << >>
        /\ imagens = << >>

\* The sheet has rows and no payment column: filtrar_dados raised KeyError.
C26_Testemunha ==
    /\ erro = "KeyError"
    /\ dtype_pgto = "ausente"
    /\ Len(transacoes) >= 1
    /\ status = "exit 1"

\* The input of the worked example.
EhOCenario ==
    /\ transacoes = ComIndice(<<CenarioX100, CenarioX50, CenarioY200>>)
    /\ data_inicio = Texto(1, 1, 2026)
    /\ data_fim = Texto(31, 1, 2026)
    /\ exclusoes = << >>

\* C22: for the worked example the filtered set is the two cash rows, the
\* table of unit A has the row X = {05/01/2026: 150, Total: 150} and the row
\* TOTAL = {05/01/2026: 150, Total: 150}, no row Y and no column 06/01/2026,
\* and the summary is [(A, 150), (TOTAL, 150)].
C22_Cenario ==
    EhOCenario =>
        /\ Filtrou =>
              /\ erro = ""
              /\ Len(df_filtrado) = 2
              /\ \A i \in 1..2 :
                    /\ df_filtrado[i].idx = i - 1
                    /\ df_filtrado[i].pgto = "Dinheiro/PIX"
                    /\ df_filtrado[i].entregador = "X"
                    /\ df_filtrado[i].data = [ts |-> 20260105]
              /\ df_filtrado[1].valor = 100
              /\ df_filtrado[2].valor = 50
        /\ Agrupou =>
              /\ Len(relatorios) = 1
              /\ relatorios[1].operacao = "A"
              /\ relatorios[1].tabela.index = <<"X", "TOTAL">>
              /\ relatorios[1].tabela.columns = <<[ts |-> 20260105], [nome |-> "Total"]>>
              /\ DOMAIN relatorios[1].tabela.cel =
                    {"X", "TOTAL"} \X {[ts |-> 20260105], [nome |-> "Total"]}
              /\ \A k \in DOMAIN relatorios[1].tabela.cel :
                    relatorios[1].tabela.cel[k] = 150
        /\ etapa = "resumido" =>
              /\ erro_resumo = ""
              /\ df_resumo = <<[nome |-> "A", total |-> 150],
                               [nome |-> "TOTAL", total |-> 150]>>

\* The summary of the worked example has been made.
C22_Testemunha ==
    /\ EhOCenario
    /\ etapa = "resumido"
    /\ Len(df_resumo) = 2

\* The filtered rows of the unit of the call, and what the call gave.
Exportou == etapa = "exportado"
Exportada == planilhas[Len(planilhas)]
RegistrosExportaveis == RegistrosDaUnidade(Exportada.operacao)

\* C28, as stated: the file holds exactly the filtered rows of the unit, as
\* filtrar_dados made them and nothing else done to them; a unit with no
\* filtered row gives no file and None.
C28_ExportaSemTransformar ==
    Exportou =>
        /\ RegistrosExportaveis = << >> =>
              Exportada.retorno = None /\ Exportada.linhas = << >>
        /\ RegistrosExportaveis # << >> =>
              /\ Exportada.retorno # None
              /\ Len(Exportada.linhas) = Len(RegistrosExportaveis)
              /\ \A i \in 1..Len(RegistrosExportaveis) :
                    /\ Exportada.linhas[i].pgto = RegistrosExportaveis[i].pgto
                    /\ Exportada.linhas[i].data = RegistrosExportaveis[i].data
                    /\ Exportada.linhas[i].operacao = RegistrosExportaveis[i].operacao
                    /\ Exportada.linhas[i].entregador = RegistrosExportaveis[i].entregador
                    /\ Exportada.linhas[i].valor = RegistrosExportaveis[i].valor

\* C28, amended: the file holds the filtered rows of the unit, each once,
\* none added, none lost, amounts unchanged, but sorted by date and with the
\* date written as the text DD/MM/YYYY; a unit with no filtered row gives no
\* file and None.
C28_ExportaOrdenadoPorData ==
    Exportou =>
        /\ RegistrosExportaveis = << >> =>
              Exportada.retorno = None /\ Exportada.linhas = << >>
        /\ RegistrosExportaveis # << >> =>
              /\ Exportada.retorno # None
              /\ Len(Exportada.linhas) = Len(RegistrosExportaveis)
              /\ \E p \in [1..Len(RegistrosExportaveis) -> 1..Len(RegistrosExportaveis)] :
                    /\ \A i, j \in DOMAIN p : i # j => p[i] # p[j]
                    /\ \A i \in DOMAIN p :
                          LET e == Exportada.linhas[i]
                              r == RegistrosExportaveis[p[i]]
                          IN  /\ e.pgto = r.pgto
                              /\ e.operacao = r.operacao
                              /\ e.entregador = r.entregador
                              /\ e.valor = r.valor
                              /\ ParseData(e.data) = r.data
              /\ \A i \in 1..(Len(Exportada.linhas) - 1) :
                    ParseData(Exportada.linhas[i].data).ts
                        <= ParseData(Exportada.linhas[i + 1].data).ts

\* Two rows of the unit, the later date first in the filtered dataset: the
\* file has them the other way round.
C28_Testemunha ==
    /\ Exportou
    /\ Len(RegistrosExportaveis) = 2
    /\ RegistrosExportaveis[2].data.ts < RegistrosExportaveis[1].data.ts
    /\ Exportada.linhas[1].valor = RegistrosExportaveis[2].valor
    /\ Exportada.linhas[1].valor # RegistrosExportaveis[1].valor

\* C25: in both entry points, when the end date typed is before the start
\* date, the user is warned before filtrar_dados is called, and the run goes
\* on to the filter.
C25_AvisoDePeriodoInvertido ==
    (Executou("filtrar") /\ ParseData(data_fim).ts < ParseData(data_inicio).ts) =>
        AVISO_DATA_FIM \in mensagens

\* obter_operacoes_desejadas has returned; the answers it did not take.
Selecionou == etapa \in {"selecionou", "gerando", "planilhas prontas"}
Recusadas ==
    IF Selecionou THEN SubSeq(digitadas, 1, Len(digitadas) - 1)
    ELSE IF etapa = "pergunta" THEN digitadas
    ELSE << >>
TemNomeDesconhecido(entrada, disponiveis) ==
    \E i \in 1..Len(OperacoesInput(entrada)) :
        ~Disponivel(OperacoesInput(entrada)[i], disponiveis)

\* C27: obter_operacoes_desejadas returns a list that is not empty and whose
\* elements are available units: all of them on "todos" in any letter case,
\* else the names typed between ';', trimmed and upper-cased, and only when
\* every one of them is available; an answer with a name that is not, and an
\* empty answer, are not taken and the prompt comes again.
C27_OperacoesSelecionadas ==
    LET disponiveis == OperacoesDisponiveis(df_filtrado)
    IN  /\ Selecionou =>
              LET ultima == Strip(digitadas[Len(digitadas)])
              IN  /\ operacoes_selecionadas # << >>
                  /\ \A i \in 1..Len(operacoes_selecionadas) :
                        operacoes_selecionadas[i] \in Rotulos(disponiveis)
                  /\ ultima # << >>
                  /\ Lower(ultima) = TODOS => operacoes_selecionadas = disponiveis
                  /\ Lower(ultima) # TODOS =>
                        /\ ~TemNomeDesconhecido(ultima, disponiveis)
                        /\ Len(operacoes_selecionadas) = Len(OperacoesInput(ultima))
                        /\ \A i \in 1..Len(operacoes_selecionadas) :
                              Chars(operacoes_selecionadas[i]) = OperacoesInput(ultima)[i]
        /\ \A i \in 1..Len(Recusadas) :
              LET entrada == Strip(Recusadas[i])
              IN  \/ entrada = << >>
                  \/ Lower(entrada) # TODOS /\ TemNomeDesconhecido(entrada, disponiveis)

\* "a;c" was not taken, " a ; b " then gave the units A and B.
C27_Testemunha ==
    /\ etapa = "selecionou"
    /\ digitadas = <<<<"a", ";", "c">>, <<" ", "a", " ", ";", " ", "b", " ">>>>
    /\ operacoes_selecionadas = <<"A", "B">>

\* gerar_todas_imagens has written every image of the run.
EscreveuTodas ==
    /\ etapa \in {"imagens prontas", "fim"}
    /\ Len(imagens) = Len(relatorios) + 1

\* C29: for a mapping of n units gerar_todas_imagens writes n + 1 files of
\* different paths and returns n + 1 entries of different keys: no image of
\* a run is written over by a later one of the same run.
C29_ArquivosDistintos ==
    EscreveuTodas =>
        /\ Cardinality({imagens[i].arquivo : i \in 1..Len(imagens)}) = Len(relatorios) + 1
        /\ Cardinality({imagens[i].chave : i \in 1..Len(imagens)}) = Len(relatorios) + 1

\* The date columns of a unit table and its agent rows, in table order.
DatasEmOrdem(tabela) == SelectSeq(tabela.columns, LAMBDA c : c # ColTotal)
AgentesEmOrdem(tabela) == SelectSeq(tabela.index, LAMBDA a : a # LinhaTotal)

\* The rearrangements of the records of a dataset.
Rearranjos(df) ==
    LET n == Len(df)
    IN  {[i \in 1..n |-> df[p[i]]] : p \in
            {q \in [1..n -> 1..n] : \A i, j \in 1..n : i # j => q[i] # q[j]}}

\* C30: in every unit table built by agrupar_por_operacao the date columns
\* are in strictly ascending order of date and the agent rows in ascending
\* order of name, whatever the order of the records of the filtered dataset:
\* the same records in another order give the same table for every unit.
C30_TabelaOrdenada ==
    Agrupou =>
        \A i \in 1..Len(relatorios) :
            LET tabela == relatorios[i].tabela
                datas == DatasEmOrdem(tabela)
                agentes == AgentesEmOrdem(tabela)
            IN  /\ \A j \in 1..(Len(datas) - 1) : datas[j].ts < datas[j + 1].ts
                /\ \A j \in 1..(Len(agentes) - 1) :
                      agentes[j] # agentes[j + 1] /\ MenorTexto(agentes[j], agentes[j + 1])
                /\ \A outro \in Rearranjos(df_filtrado) :
                      TabelaDaOperacao(outro, relatorios[i].operacao) = tabela

\* A unit whose records come with the later date and the later name first.
C30_Testemunha ==
    /\ etapa = "agrupado"
    /\ Len(df_filtrado) = 2
    /\ df_filtrado[1].operacao = df_filtrado[2].operacao
    /\ df_filtrado[1].entregador = "X" /\ df_filtrado[2].entregador = "B"
    /\ df_filtrado[1].data.ts > df_filtrado[2].data.ts
    /\ Len(relatorios) = 1
    /\ relatorios[1].tabela.index = <<"B", "X", LinhaTotal>>
    /\ Len(DatasEmOrdem(relatorios[1].tabela)) = 2

Next ==
    \/ FiltrarDados
    \/ FiltrarDeNovo
    \/ FiltrarEmOutraOrdem
    \/ AgruparPorOperacao
    \/ GerarResumoGeral
    \/ GerarTodasImagens
    \/ GerarPlanilhaOperacao

Spec == Init /\ [][Next]_vars

====
